---- MODULE Spec2Model ----
(***************************************************************************)
(* Model of examples/can_signal_tracker.py: segmentation of a CAN log      *)
(* into groups delimited by a reference message, per-id de-duplication,    *)
(* cross-group tracking, per-bit toggle accumulation and the report.       *)
(*                                                                         *)
(* Representation choices:                                                 *)
(*  - Python integers obtained from int(data, 16) are unbounded; they are  *)
(*    represented exactly by the set of exponents of their set bits, so    *)
(*    0 is {}, a ^ b is the symmetric difference, a | b the union and      *)
(*    a & b the intersection.                                              *)
(*  - Message.data is a hex string; it is a sequence of characters here    *)
(*    and int(data, 16) is computed from the digits.                       *)
(*  - A dict (insertion ordered) is a sequence of [key, val] records.      *)
(*  - The field pos of a message is its row number in the log: it stands   *)
(*    for the identity of the Python object.                               *)
(***************************************************************************)
EXTENDS Integers, Sequences, FiniteSets, TLC

VARIABLES
  pc,             \* "load": MessageGroups.load is reading rows, "analyse": TrackSignal after load
  stream,         \* the rows read so far that passed the bus/time filter, as Messages
  current_group,  \* load's local current_group (None or a MessageGroup)
  groups,         \* MessageGroups.groups
  trackers_dict,  \* TrackSignal's trackers_dict, keyed by message id
  gi,             \* index of the next message_group of the loop at line 281
  ti,             \* index of the next tracker of the loop at line 287
  printed,        \* what lines 288-289 have printed: a sequence of [id, text]
  bit_changes,    \* Message.bit_changes of every message, by pos
  collection,     \* a MessageTypeCollection on its own (SpecDedup)
  change_tracker, \* a MessageChangeTracker on its own (SpecTracker)
  tracked         \* the messages given to change_tracker.track_changes_to so far

vars == <<pc, stream, current_group, groups, trackers_dict, gi, ti, printed,
          bit_changes, collection, change_tracker, tracked>>

-----------------------------------------------------------------------------
(* Bounds of the model *)

MaxRows == 7        \* rows of the log that pass the filter
MaxRefs == 4        \* occurrences of the reference message
MaxPre == 1         \* rows before the first occurrence of the reference message
MaxCollection == 4  \* messages added to the collection of SpecDedup
MaxTracked == 4     \* track_changes_to calls of SpecTracker
MaxRowsDup == 7     \* rows of the log of SpecDup

(* Program constant: width of bit_comparers and bit_changes_count *)
W == 64

-----------------------------------------------------------------------------
(* Values *)

None == [none |-> TRUE]

\* the list [] that MessageGroup.with_id returns for an unknown id
EmptyList == [list |-> <<>>]
IsList(x) == "list" \in DOMAIN x

RefId == "ref"
OtherIds == {"a", "b"}

Zeros(n) == [i \in 1..n |-> "0"]

\* 16-digit payloads: all zero, only the bit of weight 2^58 set, that bit
\* and the bit of weight 2^0, only the bit of weight 2^63.
D0 == Zeros(16)
D5 == <<"0", "4">> \o Zeros(14)
D5L == <<"0", "4">> \o Zeros(13) \o <<"1">>
DM == <<"8">> \o Zeros(15)

\* Spellings of small numbers that differ as strings
S0 == <<"0">>
S00 == <<"0", "0">>
Sa == <<"0", "a">>
SA == <<"0", "A">>

\* the payloads the rows of the log carry, by message id
Payloads(id) ==
  IF id = RefId THEN {D0}
  ELSE IF id = "a" THEN {D0, D5}
  ELSE {DM}

-----------------------------------------------------------------------------
(* dict *)

HasKey(d, k) == \E i \in 1..Len(d) : d[i].key = k
Get(d, k) == d[CHOOSE i \in 1..Len(d) : d[i].key = k].val
Put(d, k, v) ==
  IF HasKey(d, k)
  THEN [i \in 1..Len(d) |-> IF d[i].key = k THEN [key |-> k, val |-> v] ELSE d[i]]
  ELSE Append(d, [key |-> k, val |-> v])
Keys(d) == [i \in 1..Len(d) |-> d[i].key]
Values(d) == [i \in 1..Len(d) |-> d[i].val]

-----------------------------------------------------------------------------
(* Message *)

Message(message_id, ts, data, pos) ==
  [id |-> message_id, ts |-> ts, data |-> data, pos |-> pos]

DigitValue(c) ==
  CASE c = "0" -> 0 [] c = "1" -> 1 [] c = "2" -> 2 [] c = "3" -> 3
    [] c = "4" -> 4 [] c = "5" -> 5 [] c = "6" -> 6 [] c = "7" -> 7
    [] c = "8" -> 8 [] c = "9" -> 9
    [] c \in {"a", "A"} -> 10 [] c \in {"b", "B"} -> 11
    [] c \in {"c", "C"} -> 12 [] c \in {"d", "D"} -> 13
    [] c \in {"e", "E"} -> 14 [] c \in {"f", "F"} -> 15

Pow2(n) == IF n = 0 THEN 1 ELSE IF n = 1 THEN 2 ELSE IF n = 2 THEN 4 ELSE 8

\* int(data, 16), as the set of the exponents of its set bits
IntOfHex(data) ==
  UNION { LET v == DigitValue(data[i])
          IN { 4 * (Len(data) - i) + j : j \in {j \in 0..3 : (v \div Pow2(j)) % 2 = 1} }
          : i \in 1..Len(data) }

Xor(x, y) == (x \ y) \cup (y \ x)

\* mutant: without a reference message the payload is compared with 0
bit_changes_from_zero(message, ref_message) ==
  IF ref_message = None THEN IntOfHex(message.data)
  ELSE Xor(IntOfHex(message.data), IntOfHex(ref_message.data))

bit_changes_from(message, ref_message) ==
  IF ref_message = None THEN {}
  ELSE Xor(IntOfHex(message.data), IntOfHex(ref_message.data))

-----------------------------------------------------------------------------
(* MessageTypeCollection *)

MessageTypeCollection(message_id) == [id |-> message_id, messages |-> <<>>]

\* mutant: the message is put in front of the list
CollectionAddFront(c, message) == [c EXCEPT !.messages = <<message>> \o @]

CollectionAdd(c, message) == [c EXCEPT !.messages = Append(@, message)]

RECURSIVE Reduce(_, _, _)
\* functools.reduce of lines 47-49 over messages[i..], with accumulator ret
Reduce(messages, i, ret) ==
  IF i > Len(messages) THEN ret
  ELSE Reduce(messages, i + 1,
              IF Len(ret) = 0 \/ messages[i].data # ret[Len(ret)].data
              THEN ret \o <<messages[i]>>
              ELSE ret)

RECURSIVE ReduceUnique(_, _, _)
ReduceUnique(messages, i, ret) ==
  IF i > Len(messages) THEN ret
  ELSE ReduceUnique(messages, i + 1,
                    IF \A x \in 1..Len(ret) : messages[i].data # ret[x].data
                    THEN ret \o <<messages[i]>>
                    ELSE ret)

RECURSIVE ReduceFront(_, _, _)
ReduceFront(messages, i, ret) ==
  IF i > Len(messages) THEN ret
  ELSE ReduceFront(messages, i + 1,
                   IF Len(ret) = 0 \/ messages[i].data # ret[Len(ret)].data
                   THEN <<messages[i]>> \o ret
                   ELSE ret)

\* mutant: a kept message is put in front of the accumulator
messages_with_change_front(c) == ReduceFront(c.messages, 1, <<>>)

\* mutant: a message is dropped when any kept message has its data
messages_with_change_unique(c) == ReduceUnique(c.messages, 1, <<>>)

messages_with_change(c) == Reduce(c.messages, 1, <<>>)

-----------------------------------------------------------------------------
(* MessageGroup *)

MessageGroup(ts, ref_message) ==
  [ts |-> ts, ref_message |-> ref_message, message_type_collections |-> <<>>]

message_ids(group) == Keys(group.message_type_collections)

GroupAdd(group, message) ==
  LET mtc == group.message_type_collections
      created == IF ~HasKey(mtc, message.id)
                 THEN Put(mtc, message.id, MessageTypeCollection(message.id))
                 ELSE mtc
  IN [group EXCEPT !.message_type_collections =
        Put(created, message.id, CollectionAdd(Get(created, message.id), message))]

with_id(group, message_id) ==
  IF HasKey(group.message_type_collections, message_id)
  THEN Get(group.message_type_collections, message_id)
  ELSE EmptyList

-----------------------------------------------------------------------------
(* MessageChangeTracker *)

\* mutant: the powers of two in increasing order
bit_comparers_increasing == [k \in 0..(W - 1) |-> {k}]

\* [2**(i - 1) for i in range(64, 0, -1)]: entry k is the power of two 2^(W-1-k)
bit_comparers == [k \in 0..(W - 1) |-> {W - 1 - k}]

\* mutant: the baseline is not carried into a new change tracker
MessageChangeTrackerNoBaseline(group_ts, message_id, ref_message, base_message) ==
  [group_ts |-> group_ts, id |-> message_id, ref_message |-> ref_message,
   base_message |-> None, bit_changes_count |-> [k \in 0..(W - 1) |-> 0]]

MessageChangeTracker(group_ts, message_id, ref_message, base_message) ==
  [group_ts |-> group_ts, id |-> message_id, ref_message |-> ref_message,
   base_message |-> base_message, bit_changes_count |-> [k \in 0..(W - 1) |-> 0]]

\* mutant: the baseline is not moved to the tracked message
track_changes_to_keeping_base(ct, message) ==
  LET bit_change == bit_changes_from(message, ct.base_message)
      changes == [k \in 0..(W - 1) |->
                    IF (bit_comparers[k] \cap bit_change) # {} THEN 1 ELSE 0]
  IN [ct EXCEPT !.bit_changes_count = [k \in 0..(W - 1) |-> @[k] + changes[k]]]

track_changes_to(ct, message) ==
  LET bit_change == bit_changes_from(message, ct.base_message)
      changes == [k \in 0..(W - 1) |->
                    IF (bit_comparers[k] \cap bit_change) # {} THEN 1 ELSE 0]
  IN [ct EXCEPT !.bit_changes_count = [k \in 0..(W - 1) |-> @[k] + changes[k]],
                !.base_message = message]

DigitChar(d) == <<"0", "1", "2", "3", "4", "5", "6", "7", "8", "9">>[d + 1]

RECURSIVE Decimal(_)
Decimal(x) == IF x < 10 THEN <<DigitChar(x)>> ELSE Decimal(x \div 10) \o <<DigitChar(x % 10)>>

\* f'{x:02d}' for x >= 0
Format02d(x) == IF x < 10 THEN <<"0">> \o Decimal(x) ELSE Decimal(x)

Placeholder == <<"-", "-">>

\* mutant: a count equal to the limit is printed too
desc_with_less_than_or_equal(ct, limit) ==
  [group_ts |-> ct.group_ts,
   ref_data |-> ct.ref_message.data,
   cells |-> [k \in 0..(W - 1) |->
                LET x == ct.bit_changes_count[k]
                IN IF x > 0 /\ x <= limit THEN Format02d(x) ELSE Placeholder]]

\* The row of one change tracker: the cells are the '|'-terminated fields of count_str
desc_with_less_than(ct, limit) ==
  [group_ts |-> ct.group_ts,
   ref_data |-> ct.ref_message.data,
   cells |-> [k \in 0..(W - 1) |->
                LET x == ct.bit_changes_count[k]
                IN IF x > 0 /\ x < limit THEN Format02d(x) ELSE Placeholder]]

-----------------------------------------------------------------------------
(* MessageTracker *)

MessageTracker(message_id, group_count) ==
  [id |-> message_id, messages |-> <<>>, ref_messages |-> <<>>, group_count |-> group_count]

\* line 201 calls messages_with_change on what with_id returned: a list has no such method
AddRaises(tracker, message_group) == IsList(with_id(message_group, tracker.id))

\* lines 198-200
AddKey(tracker, message_group) ==
  IF ~HasKey(tracker.messages, message_group.ts)
  THEN [tracker EXCEPT !.messages = Put(@, message_group.ts, <<>>),
                       !.ref_messages = Put(@, message_group.ts, message_group.ref_message)]
  ELSE tracker

\* mutant: the list stored under the group's key is replaced, not extended
TrackerAddReplacing(tracker, message_group) ==
  LET c == with_id(message_group, tracker.id)
      keyed == AddKey(tracker, message_group)
  IN IF AddRaises(tracker, message_group) THEN keyed
     ELSE [keyed EXCEPT !.messages = Put(@, message_group.ts, messages_with_change(c))]

TrackerAdd(tracker, message_group) ==
  LET c == with_id(message_group, tracker.id)
      keyed == AddKey(tracker, message_group)
  IN IF AddRaises(tracker, message_group) THEN keyed
     ELSE [keyed EXCEPT !.messages =
             Put(@, message_group.ts, Get(@, message_group.ts) \o messages_with_change(c))]

count(tracker) == Len(tracker.messages)

\* mutant: one group may be missing
in_all_but_one(tracker) == Len(Keys(tracker.messages)) >= tracker.group_count - 1

in_all(tracker) == Len(Keys(tracker.messages)) >= tracker.group_count

RECURSIVE Flatten(_, _)
\* [(group, message) for group, messages in d[i..] for message in messages]
Flatten(d, i) ==
  IF i > Len(d) THEN <<>>
  ELSE [j \in 1..Len(d[i].val) |-> <<d[i].key, d[i].val[j]>>] \o Flatten(d, i + 1)

RECURSIVE FlattenBack(_, _)
FlattenBack(d, i) ==
  IF i > Len(d) THEN <<>>
  ELSE FlattenBack(d, i + 1) \o [j \in 1..Len(d[i].val) |-> <<d[i].key, d[i].val[j]>>]

\* mutant: the groups are chained from the last key to the first
group_message_tuples_last_group_first(tracker) == FlattenBack(tracker.messages, 1)

group_message_tuples(tracker) == Flatten(tracker.messages, 1)

\* Message.with_bit_changes: the message with its bit_changes attribute set
with_bit_changes(message, ref_message) ==
  [id |-> message.id, ts |-> message.ts, data |-> message.data, pos |-> message.pos,
   bit_changes |-> bit_changes_from(message, ref_message)]

\* mutant: the first message of every group is compared with nothing
group_message_tuples_with_bit_changes_per_group(tracker) ==
  LET t == group_message_tuples(tracker)
  IN [i \in 1..Len(t) |->
        <<t[i][1], with_bit_changes(t[i][2], IF i = 1 \/ t[i - 1][1] # t[i][1]
                                             THEN None ELSE t[i - 1][2])>>]

group_message_tuples_with_bit_changes(tracker) ==
  LET t == group_message_tuples(tracker)
  IN [i \in 1..Len(t) |->
        <<t[i][1], with_bit_changes(t[i][2], IF i = 1 THEN None ELSE t[i - 1][2])>>]

NoGroup == -1

RECURSIVE ChangeLoopNoFinal(_, _, _, _)
\* mutant: the changes of the final run are not checked
ChangeLoopNoFinal(tuples, i, cur, group_changes) ==
  IF i > Len(tuples) THEN TRUE
  ELSE LET group == tuples[i][1]
           message == tuples[i][2]
           cg == IF cur = NoGroup THEN group ELSE cur
       IN IF group = cg
          THEN ChangeLoopNoFinal(tuples, i + 1, cg, group_changes \cup message.bit_changes)
          ELSE IF group_changes = {} THEN FALSE
               ELSE ChangeLoopNoFinal(tuples, i + 1, group, {})

RECURSIVE ChangeLoop(_, _, _, _)
\* the loop of lines 230-239 from tuple i on, and the return of line 240
ChangeLoop(tuples, i, cur, group_changes) ==
  IF i > Len(tuples) THEN group_changes # {}
  ELSE LET group == tuples[i][1]
           message == tuples[i][2]
           cg == IF cur = NoGroup THEN group ELSE cur
       IN IF group = cg
          THEN ChangeLoop(tuples, i + 1, cg, group_changes \cup message.bit_changes)
          ELSE IF group_changes = {} THEN FALSE
               ELSE ChangeLoop(tuples, i + 1, group, {})

in_all_groups_with_change(tracker) ==
  IF ~in_all(tracker) THEN FALSE
  ELSE ChangeLoop(group_message_tuples_with_bit_changes(tracker), 1, NoGroup, {})

RECURSIVE ChangeTrackerLoop(_, _, _, _, _)
\* the loop of lines 246-250 from tuple i on
ChangeTrackerLoop(tracker, tuples, i, prev_group_last_message, change_trackers) ==
  IF i > Len(tuples) THEN change_trackers
  ELSE LET group == tuples[i][1]
           message == tuples[i][2]
           created == IF ~HasKey(change_trackers, group)
                      THEN Put(change_trackers, group,
                               MessageChangeTracker(group, tracker.id,
                                                    Get(tracker.ref_messages, group),
                                                    prev_group_last_message))
                      ELSE change_trackers
       IN ChangeTrackerLoop(tracker, tuples, i + 1, message,
                            Put(created, group, track_changes_to(Get(created, group), message)))

group_change_trackers(tracker) ==
  Values(ChangeTrackerLoop(tracker, group_message_tuples(tracker), 1, None, <<>>))

\* mutant: [:-1] of a list
DropLast(list) == SubSeq(list, 1, Len(list) - 1)

\* [1:] of a list
From1(list) == SubSeq(list, 2, Len(list))

\* mutant: the header labels count up from 00
bit_changes_str_labels_increasing(tracker, limit) ==
  LET cts == From1(group_change_trackers(tracker))
  IN [headers |-> [k \in 0..(W - 1) |-> Format02d(k)],
      rows |-> [i \in 1..Len(cts) |-> desc_with_less_than(cts[i], limit)]]

bit_changes_str(tracker, limit) ==
  LET cts == From1(group_change_trackers(tracker))
  IN [headers |-> [k \in 0..(W - 1) |-> Format02d(W - 1 - k)],
      rows |-> [i \in 1..Len(cts) |-> desc_with_less_than(cts[i], limit)]]

-----------------------------------------------------------------------------
(* MessageGroups.load, one row at a time *)

LastTs == IF Len(stream) = 0 THEN 0 ELSE stream[Len(stream)].ts
NumRefs == Cardinality({i \in 1..Len(stream) : stream[i].id = RefId})

\* mutant: a group without traffic is not appended
SealNonEmpty(grps, cur) ==
  IF cur # None /\ cur.message_type_collections # <<>> THEN Append(grps, cur) ELSE grps

\* mutant: the open group is put in front of self.groups
SealFront(grps, cur) == IF cur # None THEN <<cur>> \o grps ELSE grps

\* lines 157-158: the open group, if any, is appended to self.groups
Seal(grps, cur) == IF cur # None THEN Append(grps, cur) ELSE grps

\* lines 156-159: a row of the reference message
LoadReference(message) ==
  /\ pc = "load"
  /\ Len(stream) < MaxRows
  /\ NumRefs < MaxRefs
  /\ message.id = RefId
  /\ stream' = Append(stream, message)
  /\ bit_changes' = Append(bit_changes, {})
  /\ groups' = Seal(groups, current_group)
  /\ current_group' = MessageGroup(message.ts, message)
  /\ UNCHANGED <<pc, trackers_dict, gi, ti, printed, collection, change_tracker, tracked>>

\* lines 160-161: a row of another message while a group is open
LoadOther(message) ==
  /\ pc = "load"
  /\ Len(stream) < MaxRows
  /\ message.id # RefId
  /\ current_group # None
  /\ stream' = Append(stream, message)
  /\ bit_changes' = Append(bit_changes, {})
  /\ current_group' = GroupAdd(current_group, message)
  /\ UNCHANGED <<pc, groups, trackers_dict, gi, ti, printed, collection, change_tracker, tracked>>

\* lines 156-161: a row of another message before the first reference
LoadDiscard(message) ==
  /\ pc = "load"
  /\ Len(stream) < MaxRows
  /\ message.id # RefId
  /\ current_group = None
  /\ Len(stream) < MaxPre
  /\ stream' = Append(stream, message)
  /\ bit_changes' = Append(bit_changes, {})
  /\ UNCHANGED <<pc, current_group, groups, trackers_dict, gi, ti, printed,
                 collection, change_tracker, tracked>>

\* end of the file: load returns, its local current_group is dropped
LoadReturn ==
  /\ pc = "load"
  /\ pc' = "analyse"
  /\ current_group' = None
  /\ UNCHANGED <<stream, groups, trackers_dict, gi, ti, printed, bit_changes,
                 collection, change_tracker, tracked>>

\* The rows that may come next: the log is in time order
Rows == UNION { { Message(id, LastTs + 1, data, Len(stream) + 1) : data \in Payloads(id) } :
                 id \in {RefId} \cup OtherIds }

-----------------------------------------------------------------------------
(* TrackSignal after load *)

RECURSIVE AddToTrackers(_, _, _, _)
\* the loop of lines 282-285 over ids[i..]
AddToTrackers(td, message_group, ids, i) ==
  IF i > Len(ids) THEN td
  ELSE LET created == IF ~HasKey(td, ids[i])
                      THEN Put(td, ids[i], MessageTracker(ids[i], Len(groups)))
                      ELSE td
       IN AddToTrackers(Put(created, ids[i], TrackerAdd(Get(created, ids[i]), message_group)),
                        message_group, ids, i + 1)

\* one iteration of the loop of line 281
TrackGroup ==
  /\ pc = "analyse"
  /\ gi <= Len(groups)
  /\ trackers_dict' = AddToTrackers(trackers_dict, groups[gi], message_ids(groups[gi]), 1)
  /\ gi' = gi + 1
  /\ UNCHANGED <<pc, stream, current_group, groups, ti, printed, bit_changes,
                 collection, change_tracker, tracked>>

\* Message.bit_changes after the tracker's in_all_groups_with_change was evaluated
BitChangesAfter(tracker) ==
  LET t == group_message_tuples_with_bit_changes(tracker)
  IN IF ~in_all(tracker) THEN bit_changes
     ELSE [p \in 1..Len(bit_changes) |->
             IF \E i \in 1..Len(t) : t[i][2].pos = p
             THEN t[CHOOSE i \in 1..Len(t) : t[i][2].pos = p][2].bit_changes
             ELSE bit_changes[p]]

\* one iteration of the loop of lines 287-290
ReportTracker ==
  /\ pc = "analyse"
  /\ gi > Len(groups)
  /\ ti <= Len(trackers_dict)
  /\ LET tracker == trackers_dict[ti].val
     IN /\ bit_changes' = BitChangesAfter(tracker)
        /\ printed' = IF in_all_groups_with_change(tracker)
                      THEN Append(printed, [id |-> tracker.id, text |-> bit_changes_str(tracker, 4)])
                      ELSE printed
  /\ ti' = ti + 1
  /\ UNCHANGED <<pc, stream, current_group, groups, trackers_dict, gi,
                 collection, change_tracker, tracked>>

Done == pc = "analyse" /\ gi > Len(groups) /\ ti > Len(trackers_dict)

Init ==
  /\ pc = "load"
  /\ stream = <<>>
  /\ current_group = None
  /\ groups = <<>>
  /\ trackers_dict = <<>>
  /\ gi = 1
  /\ ti = 1
  /\ printed = <<>>
  /\ bit_changes = <<>>
  /\ collection = MessageTypeCollection("a")
  /\ change_tracker = None
  /\ tracked = <<>>

Next ==
  \/ \E message \in Rows : LoadReference(message)
  \/ \E message \in Rows : LoadOther(message)
  \/ \E message \in Rows : LoadDiscard(message)
  \/ LoadReturn
  \/ TrackGroup
  \/ ReportTracker

Spec == Init /\ [][Next]_vars

-----------------------------------------------------------------------------
(* A MessageTypeCollection on its own: add, then messages_with_change *)

DedupData == {D0, D5, S0, S00, Sa, SA}

DedupAdd(message) ==
  /\ pc = "dedup"
  /\ Len(collection.messages) < MaxCollection
  /\ collection' = CollectionAdd(collection, message)
  /\ UNCHANGED <<pc, stream, current_group, groups, trackers_dict, gi, ti, printed,
                 bit_changes, change_tracker, tracked>>

InitDedup ==
  /\ pc = "dedup"
  /\ stream = <<>>
  /\ current_group = None
  /\ groups = <<>>
  /\ trackers_dict = <<>>
  /\ gi = 1
  /\ ti = 1
  /\ printed = <<>>
  /\ bit_changes = <<>>
  /\ collection = MessageTypeCollection("a")
  /\ change_tracker = None
  /\ tracked = <<>>

NextDedup ==
  \E data \in DedupData :
    DedupAdd(Message("a", Len(collection.messages) + 1, data, Len(collection.messages) + 1))

SpecDedup == InitDedup /\ [][NextDedup]_vars

-----------------------------------------------------------------------------
(* A MessageChangeTracker on its own: construction, then track_changes_to *)

TrackerData == {D0, D5, D5L, DM, Sa}

TrackChangesTo(message) ==
  /\ pc = "tracker"
  /\ Len(tracked) < MaxTracked
  /\ change_tracker' = track_changes_to(change_tracker, message)
  /\ tracked' = Append(tracked, message)
  /\ UNCHANGED <<pc, stream, current_group, groups, trackers_dict, gi, ti, printed,
                 bit_changes, collection>>

InitTracker ==
  /\ pc = "tracker"
  /\ stream = <<>>
  /\ current_group = None
  /\ groups = <<>>
  /\ trackers_dict = <<>>
  /\ gi = 1
  /\ ti = 1
  /\ printed = <<>>
  /\ bit_changes = <<>>
  /\ collection = MessageTypeCollection("a")
  /\ \E base \in {None} \cup {Message("a", 0, data, 0) : data \in TrackerData} :
       change_tracker = MessageChangeTracker(1, "a", Message(RefId, 1, D0, 1), base)
  /\ tracked = <<>>

NextTracker ==
  \E data \in TrackerData : TrackChangesTo(Message("a", Len(tracked) + 2, data, Len(tracked) + 2))

SpecTracker == InitTracker /\ [][NextTracker]_vars

-----------------------------------------------------------------------------
(* Vocabulary of the properties *)

Analysing == pc = "analyse"

Trackers == {trackers_dict[i].val : i \in 1..Len(trackers_dict)}
PrintedIds == {printed[i].id : i \in 1..Len(printed)}

\* the numeric value of a message's payload
Payload(message) == IntOfHex(message.data)

\* the payload bit that entry k of a toggle-count vector stands for (most significant first)
BitOf(k) == W - 1 - k

Last(list) == list[Len(list)]

GroupHas(group, id) == HasKey(group.message_type_collections, id)
PresentInAllGroups(id) == \A g \in 1..Len(groups) : GroupHas(groups[g], id)
DistinctAnchors == \A g, h \in 1..Len(groups) : g # h => groups[g].ts # groups[h].ts

\* position in the stream of the k-th occurrence of the reference message
RefPositions == {p \in 1..Len(stream) : stream[p].id = RefId}
RefPosition(k) ==
  CHOOSE p \in RefPositions : Cardinality({q \in RefPositions : q <= p}) = k

\* the occurrence that precedes occurrence j of the i-th group key of a tracker
Predecessor(tracker, i, j) ==
  IF j > 1 THEN tracker.messages[i].val[j - 1]
  ELSE IF i > 1 THEN Last(tracker.messages[i - 1].val)
  ELSE None

\* bitChanges of occurrence j of the i-th group key: payload XOR predecessor's payload
BitChangesOf(tracker, i, j) ==
  IF Predecessor(tracker, i, j) = None THEN {}
  ELSE Xor(Payload(tracker.messages[i].val[j]), Payload(Predecessor(tracker, i, j)))

\* the OR of bitChanges over every message of the run of the i-th group key
RunOr(tracker, i) ==
  UNION {BitChangesOf(tracker, i, j) : j \in 1..Len(tracker.messages[i].val)}

UniversalChange(tracker) == \A i \in 1..Len(tracker.messages) : RunOr(tracker, i) # {}

-----------------------------------------------------------------------------
(* C1 *)

\* C1: once every tracker has been filtered, a message id is reported iff it is
\* present in all groups and, for every run of its flattened occurrence sequence,
\* the OR of bitChanges over every message of the run (its first message
\* included) is nonzero.
C1_ReportedIffPresentAndEveryRunChanges ==
  Done => \A tracker \in Trackers :
            (tracker.id \in PrintedIds)
              <=> (PresentInAllGroups(tracker.id) /\ UniversalChange(tracker))

-----------------------------------------------------------------------------
(* C2 *)

\* bitChanges of every occurrence of the i-th group key, in list order
GroupBitChanges(tracker, i) ==
  [j \in 1..Len(tracker.messages[i].val) |-> BitChangesOf(tracker, i, j)]

\* C2: for every message id and every group it occurs in, entry k of the group's
\* ChangeRecord counts the occurrences of the group's deduplicated list that
\* differ from their immediate predecessor in that bit; the predecessor of a
\* group's first occurrence is the last occurrence of the previous group of the
\* id, and the first occurrence overall adds zero.
C2_ToggleCountsAreChainedDiffs ==
  Analysing =>
    \A tracker \in Trackers :
      LET records == group_change_trackers(tracker)
      IN /\ Len(records) = Len(tracker.messages)
         /\ \A i \in 1..Len(records) :
              LET diffs == GroupBitChanges(tracker, i)
              IN /\ records[i].group_ts = tracker.messages[i].key
                 /\ \A g \in 1..Len(groups) :
                      groups[g].ts = tracker.messages[i].key =>
                        tracker.messages[i].val
                          = messages_with_change(with_id(groups[g], tracker.id))
                 /\ \A k \in 0..(W - 1) :
                      records[i].bit_changes_count[k]
                        = Cardinality({j \in DOMAIN diffs : BitOf(k) \in diffs[j]})

\* a second group whose first occurrence differs from the last one of the first group
C2_Witness ==
  /\ Done
  /\ \E tracker \in Trackers :
       /\ Len(tracker.messages) >= 2
       /\ Len(tracker.messages[2].val) >= 2
       /\ BitChangesOf(tracker, 2, 1) # {}
       /\ \E k \in 0..(W - 1) :
            group_change_trackers(tracker)[2].bit_changes_count[k] = 2

-----------------------------------------------------------------------------
(* C3 *)

Max(x, y) == IF x > y THEN x ELSE y

\* C3: with r occurrences of the reference id consumed, the GroupSequence holds
\* exactly max(0, r-1) groups, the k-th anchored at and holding the k-th
\* reference occurrence; the group of the last occurrence is never appended and
\* a group without traffic is still sealed.
C3_GroupsAreBoundedByReferences ==
  /\ Len(groups) = Max(0, NumRefs - 1)
  /\ \A k \in 1..Len(groups) :
       /\ groups[k].ref_message = stream[RefPosition(k)]
       /\ groups[k].ts = stream[RefPosition(k)].ts

\* three reference occurrences, nothing between the second and the third
C3_Witness ==
  /\ Analysing
  /\ NumRefs = 3
  /\ RefPosition(3) = RefPosition(2) + 1
  /\ Len(groups) = 2
  /\ groups[2].message_type_collections = <<>>
  /\ groups[1].message_type_collections # <<>>

-----------------------------------------------------------------------------
(* C4 *)

\* the sealed groups followed by the open one
AllGroups == groups \o (IF current_group = None THEN <<>> ELSE <<current_group>>)

\* where a message is held: <<group, collection, index>>
Places(message) ==
  {pl \in UNION { UNION { { <<g, c, j>> :
                            j \in 1..Len(AllGroups[g].message_type_collections[c].val.messages) } :
                          c \in 1..Len(AllGroups[g].message_type_collections) } :
                  g \in 1..Len(AllGroups) } :
     AllGroups[pl[1]].message_type_collections[pl[2]].val.messages[pl[3]] = message}

\* position of the most recent reference occurrence before row p, 0 if there is none
RefBefore(p) ==
  IF \E q \in RefPositions : q < p
  THEN CHOOSE q \in RefPositions : q < p /\ \A q2 \in RefPositions : q2 < p => q2 <= q
  ELSE 0

\* the group opened by the reference occurrence at row q was dropped at the end of the stream
Dropped(q) == pc # "load" /\ \A q2 \in RefPositions : q2 <= q

\* C4: a non-reference message that arrives before the first reference occurrence
\* is in no group; one that arrives while a group is open is held exactly once,
\* in the collection of its own id of the group opened by the most recent
\* preceding reference occurrence, of which there is one per id; and every
\* collection lists its messages in arrival order.
C4_MessagesGoToTheOpenGroup ==
  /\ \A p \in 1..Len(stream) :
       stream[p].id # RefId =>
         LET q == RefBefore(p)
             places == Places(stream[p])
         IN IF q = 0 \/ Dropped(q) THEN places = {}
            ELSE /\ Cardinality(places) = 1
                 /\ \A pl \in places :
                      /\ AllGroups[pl[1]].ref_message = stream[q]
                      /\ AllGroups[pl[1]].message_type_collections[pl[2]].key = stream[p].id
                      /\ AllGroups[pl[1]].message_type_collections[pl[2]].val.id = stream[p].id
  /\ \A g \in 1..Len(AllGroups) :
       LET mtc == AllGroups[g].message_type_collections
       IN /\ \A c, d \in 1..Len(mtc) : mtc[c].key = mtc[d].key => c = d
          /\ \A c \in 1..Len(mtc) :
               \A i, j \in 1..Len(mtc[c].val.messages) :
                 i < j => mtc[c].val.messages[i].pos < mtc[c].val.messages[j].pos

\* a discarded first row, then a sealed group with two collections, one of two messages
C4_Witness ==
  /\ Len(stream) >= 1
  /\ stream[1].id # RefId
  /\ Len(groups) >= 1
  /\ Len(groups[1].message_type_collections) = 2
  /\ \E c \in 1..2 : Len(groups[1].message_type_collections[c].val.messages) >= 2

-----------------------------------------------------------------------------
(* C5 *)

\* the kept message that precedes message i, given the set K of kept indices
PrevKept(K, i) == CHOOSE j \in K : j < i /\ \A j2 \in K : j2 < i => j2 <= j

-----------------------------------------------------------------------------
(* C6 *)

GroupKeys(tracker) == {tracker.messages[i].key : i \in 1..Len(tracker.messages)}

\* C6: for every tracker built over a GroupSequence with pairwise distinct
\* anchors, the number of distinct group keys never exceeds totalGroups and
\* inAllGroups is true iff it is exactly totalGroups; an id absent from a group
\* has inAllGroups false and is not reported.
C6_InAllIffCountIsTotal ==
  (Analysing /\ DistinctAnchors) =>
    \A tracker \in Trackers :
      /\ tracker.group_count = Len(groups)
      /\ count(tracker) = Cardinality(GroupKeys(tracker))
      /\ count(tracker) <= Len(groups)
      /\ in_all(tracker) <=> (count(tracker) = Len(groups))
      /\ (\E g \in 1..Len(groups) : ~GroupHas(groups[g], tracker.id)) =>
           (~in_all(tracker) /\ tracker.id \notin PrintedIds)

\* an id in groups 1 and 3 of three groups, with a payload change, not in group 2
C6_Witness ==
  /\ Done
  /\ Len(groups) = 3
  /\ \E tracker \in Trackers :
       /\ GroupHas(groups[1], tracker.id)
       /\ ~GroupHas(groups[2], tracker.id)
       /\ GroupHas(groups[3], tracker.id)
       /\ count(tracker) = 2
       /\ BitChangesOf(tracker, 2, 1) # {}
       /\ ~in_all(tracker)
       /\ tracker.id \notin PrintedIds

-----------------------------------------------------------------------------
(* C7 *)

\* the change record of a tracker for the group key ts
RecordOf(tracker, ts) ==
  LET records == group_change_trackers(tracker)
  IN records[CHOOSE i \in 1..Len(records) : records[i].group_ts = ts]

\* C7: every reported id appears in every group and its ChangeRecord for every
\* group has at least one nonzero toggle count.
C7_ReportedChangesInEveryGroup ==
  \A x \in 1..Len(printed) :
    LET tracker == Get(trackers_dict, printed[x].id)
        records == group_change_trackers(tracker)
    IN \A g \in 1..Len(groups) :
         /\ GroupHas(groups[g], tracker.id)
         /\ \E i \in 1..Len(records) :
              /\ records[i].group_ts = groups[g].ts
              /\ records[i].bit_changes_count # [k \in 0..(W - 1) |-> 0]

\* an id has been reported over two groups
C7_Witness ==
  /\ Done
  /\ Len(groups) >= 2
  /\ printed # <<>>

-----------------------------------------------------------------------------
(* C8 *)

\* the n-th group, in sequence order, that holds the id
NthGroupWith(id, n) ==
  CHOOSE g \in 1..Len(groups) :
    /\ GroupHas(groups[g], id)
    /\ Cardinality({h \in 1..g : GroupHas(groups[h], id)}) = n

\* C8: the report of a reported id holds (number of groups the id appears in) - 1
\* rows: the row of every ChangeRecord in group order but the first one.
C8_ReportSkipsFirstRecordOnly ==
  \A x \in 1..Len(printed) :
    LET tracker == Get(trackers_dict, printed[x].id)
        rows == printed[x].text.rows
        n == Cardinality({g \in 1..Len(groups) : GroupHas(groups[g], tracker.id)})
    IN /\ Len(rows) = n - 1
       /\ \A i \in 1..(n - 1) :
            LET group == groups[NthGroupWith(tracker.id, i + 1)]
            IN /\ rows[i].group_ts = group.ts
               /\ rows[i].ref_data = group.ref_message.data
               /\ rows[i] = desc_with_less_than(RecordOf(tracker, group.ts), 4)

\* a report of one row, the row of the second group
C8_Witness ==
  /\ Done
  /\ \E x \in 1..Len(printed) :
       /\ Len(printed[x].text.rows) = 1
       /\ printed[x].text.rows[1].group_ts = groups[2].ts

-----------------------------------------------------------------------------
(* C9 *)

OnlyBit5 == [k \in 0..(W - 1) |-> IF k = 5 THEN 1 ELSE 0]

KeyIndex(tracker, ts) == CHOOSE i \in 1..Len(tracker.messages) : tracker.messages[i].key = ts

\* the id has exactly two occurrences in the group and their payloads differ in bit 5 only
TogglesOnlyBit5(group, id) ==
  /\ GroupHas(group, id)
  /\ LET ms == with_id(group, id).messages
     IN /\ Len(ms) = 2
        /\ Xor(Payload(ms[1]), Payload(ms[2])) = {BitOf(5)}

\* C9 as stated: in any group in which the id has exactly two adjacent occurrences
\* whose payloads differ only in bit 5, the group's ChangeRecord has
\* toggleCounts[5] = 1 and every other entry 0.
C9_Bit5Only ==
  Analysing =>
    \A tracker \in Trackers : \A g \in 1..Len(groups) :
      (HasKey(tracker.messages, groups[g].ts) /\ TogglesOnlyBit5(groups[g], tracker.id)) =>
        RecordOf(tracker, groups[g].ts).bit_changes_count = OnlyBit5

\* C9 as amended: the same, provided the first of the two occurrences has no
\* predecessor (the id occurred in no earlier group) or carries the same payload
\* as the id's last occurrence in the previous group it occurred in.
C9_Bit5OnlyWithoutBoundaryChange ==
  Analysing =>
    \A tracker \in Trackers : \A g \in 1..Len(groups) :
      (/\ HasKey(tracker.messages, groups[g].ts)
       /\ TogglesOnlyBit5(groups[g], tracker.id)
       /\ BitChangesOf(tracker, KeyIndex(tracker, groups[g].ts), 1) = {}) =>
        RecordOf(tracker, groups[g].ts).bit_changes_count = OnlyBit5

\* a second group toggling bit 5 only, entered with the payload the first group ended with
C9_Witness ==
  /\ Done
  /\ Len(groups) >= 2
  /\ \E tracker \in Trackers :
       /\ HasKey(tracker.messages, groups[1].ts)
       /\ HasKey(tracker.messages, groups[2].ts)
       /\ TogglesOnlyBit5(groups[2], tracker.id)
       /\ BitChangesOf(tracker, KeyIndex(tracker, groups[2].ts), 1) = {}
       /\ RecordOf(tracker, groups[2].ts).bit_changes_count = OnlyBit5

-----------------------------------------------------------------------------
(* C10 *)

\* the baseline of the next track step: the message tracked last, or the one
\* the change tracker was built with
Baseline == IF tracked = <<>> THEN change_tracker.base_message ELSE Last(tracked)

\* a XOR b of a track step from baseline a to message b (0 without a baseline)
StepDelta(a, b) == IF a = None THEN {} ELSE Xor(Payload(a), Payload(b))

\* C10: a track step from baseline a to message b adds exactly 1 to the toggle
\* counts at the set bits of a XOR b and leaves the others unchanged; so every
\* toggle count lies between 0 and the number of transitions tracked so far.
C10_TrackStepCountsSetBits ==
  /\ [](pc = "tracker" =>
          \A k \in 0..(W - 1) : change_tracker.bit_changes_count[k] \in 0..Len(tracked))
  /\ [][\A k \in 0..(W - 1) :
          change_tracker'.bit_changes_count[k]
            = change_tracker.bit_changes_count[k]
              + (IF BitOf(k) \in StepDelta(Baseline, Last(tracked')) THEN 1 ELSE 0)]_vars

\* after three steps entry 5 stands at 2, entry 63 (the least significant bit) at 1
\* and entry 0 (the most significant bit) at 0
C10_Witness ==
  /\ pc = "tracker"
  /\ Len(tracked) = 3
  /\ change_tracker.bit_changes_count[5] = 2
  /\ change_tracker.bit_changes_count[63] = 1
  /\ change_tracker.bit_changes_count[0] = 0

-----------------------------------------------------------------------------
(* C11 *)

\* every occurrence of the id in the sealed groups
OccurrencesOf(id) ==
  UNION { {with_id(groups[g], id).messages[j] : j \in 1..Len(with_id(groups[g], id).messages)} :
          g \in {h \in 1..Len(groups) : GroupHas(groups[h], id)} }

\* the id carries one payload at all of its occurrences
ConstantPayload(id) == \A m, n \in OccurrencesOf(id) : Payload(m) = Payload(n)

\* C11: a message id that carries the same payload at every occurrence in every
\* group is not reported, whatever the number of groups and whether or not it
\* is present in all of them.
C11_ConstantIdIsNotReported ==
  \A id \in OtherIds : ConstantPayload(id) => id \notin PrintedIds

\* two groups hold the id, one of them twice, always with the same payload, and
\* its tracker was filtered without a report
C11_Witness ==
  /\ Done
  /\ Len(groups) = 2
  /\ PresentInAllGroups("a")
  /\ Cardinality(OccurrencesOf("a")) >= 3
  /\ ConstantPayload("a")
  /\ "a" \notin PrintedIds

-----------------------------------------------------------------------------
(* C12 *)

\* C12: deduplicating the result of a deduplication gives the same sequence.
C12_DedupIsIdempotent ==
  LET once == messages_with_change(collection)
  IN messages_with_change([collection EXCEPT !.messages = once]) = once

\* a collection that the deduplication shortens to two messages or more
C12_Witness ==
  /\ pc = "dedup"
  /\ Len(messages_with_change(collection)) >= 2
  /\ Len(messages_with_change(collection)) < Len(collection.messages)

-----------------------------------------------------------------------------
(* C13 *)
(* A MessageTracker used on its own: after load the caller adds every group,
   in order, to the tracker of one message id, whether or not the group holds
   that id.  An exception that add raises is not caught: pc becomes "raised",
   with the assignments add made before the failing line kept. *)

AddGroup(id) ==
  /\ pc = "analyse"
  /\ gi <= Len(groups)
  /\ trackers_dict = <<>> \/ HasKey(trackers_dict, id)
  /\ LET created == IF ~HasKey(trackers_dict, id)
                    THEN Put(trackers_dict, id, MessageTracker(id, Len(groups)))
                    ELSE trackers_dict
         tracker == Get(created, id)
     IN /\ trackers_dict' = Put(created, id, TrackerAdd(tracker, groups[gi]))
        /\ pc' = IF AddRaises(tracker, groups[gi]) THEN "raised" ELSE pc
        /\ gi' = IF AddRaises(tracker, groups[gi]) THEN gi ELSE gi + 1
  /\ UNCHANGED <<stream, current_group, groups, ti, printed, bit_changes,
                 collection, change_tracker, tracked>>

NextAdd ==
  \/ \E message \in Rows : LoadReference(message)
  \/ \E message \in Rows : LoadOther(message)
  \/ \E message \in Rows : LoadDiscard(message)
  \/ LoadReturn
  \/ \E id \in OtherIds : AddGroup(id)

SpecAdd == Init /\ [][NextAdd]_vars

\* C13: add, called with a group that holds no collection for the tracker's
\* id, completes without failure: the missing collection counts as empty and
\* the group contributes no occurrence to the tracker.
C13_AddToleratesMissingCollection ==
  /\ pc # "raised"
  /\ \A i \in 1..Len(trackers_dict) : \A g \in 1..(gi - 1) :
       LET tracker == trackers_dict[i].val
       IN ~GroupHas(groups[g], tracker.id)
            => /\ HasKey(tracker.messages, groups[g].ts)
               /\ Get(tracker.messages, groups[g].ts) = <<>>

-----------------------------------------------------------------------------
(* C14 *)
(* A change tracker on its own whose counts were reached by earlier calls of
   track_changes_to, then desc_with_less_than with some limit.  The row is
   kept in printed together with the limit. *)

\* the counts a bit may have reached, and the bits that reached them
CountValues == {0, 1, 3, 4, 5, 99, 100}
CountedColumns == <<0, 5, W - 1>>
Limits == {1, 4, 5, 100, 101, 1000}

Describe(limit) ==
  /\ pc = "desc"
  /\ printed = <<>>
  /\ printed' = <<[limit |-> limit, row |-> desc_with_less_than(change_tracker, limit)]>>
  /\ UNCHANGED <<pc, stream, current_group, groups, trackers_dict, gi, ti, bit_changes,
                 collection, change_tracker, tracked>>

InitDesc ==
  /\ pc = "desc"
  /\ stream = <<>>
  /\ current_group = None
  /\ groups = <<>>
  /\ trackers_dict = <<>>
  /\ gi = 1
  /\ ti = 1
  /\ printed = <<>>
  /\ bit_changes = <<>>
  /\ collection = MessageTypeCollection("a")
  /\ \E c \in [1..Len(CountedColumns) -> CountValues] :
       change_tracker =
         [MessageChangeTracker(1, "a", Message(RefId, 1, D0, 1), None)
            EXCEPT !.bit_changes_count =
              [k \in 0..(W - 1) |->
                 IF \E n \in 1..Len(CountedColumns) : CountedColumns[n] = k
                 THEN c[CHOOSE n \in 1..Len(CountedColumns) : CountedColumns[n] = k]
                 ELSE 0]]
  /\ tracked = <<>>

NextDesc == \E limit \in Limits : Describe(limit)

SpecDesc == InitDesc /\ [][NextDesc]_vars

Digits == {"0", "1", "2", "3", "4", "5", "6", "7", "8", "9"}

RECURSIVE DecimalValue(_)
\* the number a string of decimal digits denotes
DecimalValue(str) ==
  IF Len(str) = 0 THEN 0
  ELSE 10 * DecimalValue(SubSeq(str, 1, Len(str) - 1)) + DigitValue(str[Len(str)])

IsNumber(cell) == Len(cell) > 0 /\ \A n \in 1..Len(cell) : cell[n] \in Digits

\* C14 as stated: in a report row, for every bit position and every threshold
\* t, a count c is rendered as a two-digit number iff 0 < c < t, and as the
\* placeholder otherwise (c = 0, and c >= t including c = t).
C14_TwoDigitsIffBelowThreshold ==
  \A n \in 1..Len(printed) : \A k \in 0..(W - 1) :
    LET c == change_tracker.bit_changes_count[k]
        cell == printed[n].row.cells[k]
    IN IF 0 < c /\ c < printed[n].limit
       THEN IsNumber(cell) /\ Len(cell) = 2 /\ DecimalValue(cell) = c
       ELSE cell = Placeholder

\* C14 amended: a count c is rendered as its decimal number, padded with a zero
\* to two digits when c < 10 and with all its digits (three or more from 100
\* on), iff 0 < c < t, and as the placeholder otherwise.
C14_NumberIffBelowThreshold ==
  \A n \in 1..Len(printed) : \A k \in 0..(W - 1) :
    LET c == change_tracker.bit_changes_count[k]
        cell == printed[n].row.cells[k]
    IN IF 0 < c /\ c < printed[n].limit
       THEN /\ IsNumber(cell)
            /\ DecimalValue(cell) = c
            /\ Len(cell) >= 2
            /\ (c < 100 => Len(cell) = 2)
            /\ (Len(cell) > 2 => cell[1] # "0")
       ELSE cell = Placeholder

\* a row printed with limit 4 whose counts are 0, 3 (below the limit) and 4
\* (equal to it)
C14_Witness ==
  /\ pc = "desc"
  /\ Len(printed) = 1
  /\ printed[1].limit = 4
  /\ change_tracker.bit_changes_count[0] = 0
  /\ change_tracker.bit_changes_count[5] = 3
  /\ change_tracker.bit_changes_count[W - 1] = 4
  /\ printed[1].row.cells[5] = <<"0", "3">>
  /\ printed[1].row.cells[W - 1] = Placeholder

-----------------------------------------------------------------------------
(* C15 *)

\* C15: once a group is sealed no later step changes it: its anchor, its
\* reference message and its collections stay as they were when it was
\* sealed, and a row of another message leaves every sealed group alone (only
\* the open group receives it).
C15_SealedGroupsNeverChange ==
  [][/\ Len(groups') >= Len(groups)
     /\ \A k \in 1..Len(groups) :
          /\ groups'[k].ts = groups[k].ts
          /\ groups'[k].ref_message = groups[k].ref_message
          /\ groups'[k].message_type_collections = groups[k].message_type_collections
     /\ (Len(stream') > Len(stream) /\ stream'[Len(stream')].id # RefId)
          => groups' = groups]_vars

\* a sealed group with traffic, a second sealed group, and an open group that
\* received a message after both were sealed
C15_Witness ==
  /\ pc = "load"
  /\ Len(groups) = 2
  /\ groups[1].message_type_collections # <<>>
  /\ current_group # None
  /\ current_group.message_type_collections # <<>>

-----------------------------------------------------------------------------
(* C16 *)

\* C16: bits are numbered most significant first, the same way in the
\* accumulator and in the report: the header labels run from W-1 down to 0,
\* and for every k entry k of a group's toggle counts, which is what column k
\* of the group's report row renders, counts the flips of the bit of weight
\* 2^(W-1-k), the bit that the k-th header label names.
C16_ColumnsAreMostSignificantFirst ==
  \A n \in 1..Len(printed) :
    LET text == printed[n].text
        tracker == Get(trackers_dict, printed[n].id)
        records == group_change_trackers(tracker)
    IN /\ \A k \in 0..(W - 1) :
            /\ IsNumber(text.headers[k])
            /\ DecimalValue(text.headers[k]) = W - 1 - k
       /\ \A r \in 1..Len(text.rows) :
            LET diffs == GroupBitChanges(tracker, r + 1)
            IN \A k \in 0..(W - 1) :
                 LET flips == Cardinality({j \in DOMAIN diffs :
                                             DecimalValue(text.headers[k]) \in diffs[j]})
                 IN /\ records[r + 1].bit_changes_count[k] = flips
                    /\ text.rows[r].cells[k]
                         = IF 0 < flips /\ flips < 4 THEN Format02d(flips) ELSE Placeholder

\* a report whose row shows two flips in column 5, under the label 58
C16_Witness ==
  /\ Done
  /\ \E n \in 1..Len(printed) :
       /\ printed[n].text.headers[5] = <<"5", "8">>
       /\ Len(printed[n].text.rows) >= 1
       /\ printed[n].text.rows[1].cells[5] = <<"0", "2">>
       /\ \A k \in (0..(W - 1)) \ {5} : printed[n].text.rows[1].cells[k] = Placeholder

-----------------------------------------------------------------------------
(* C17 *)

\* C17: the accumulator and the annotated view agree: for every message id,
\* every group key of its tracker and every bit, the group's toggle count of
\* the bit is positive iff the bit is set in the OR of the bitChanges of the
\* group's occurrences in the flattened occurrence sequence with bit changes.
C17_CountsAgreeWithAnnotatedView ==
  Analysing =>
    \A tracker \in Trackers :
      LET records == group_change_trackers(tracker)
          view == group_message_tuples_with_bit_changes(tracker)
      IN /\ {records[i].group_ts : i \in 1..Len(records)} = {view[n][1] : n \in 1..Len(view)}
         /\ \A i \in 1..Len(records) :
              LET group_or == UNION {view[n][2].bit_changes :
                                       n \in {m \in 1..Len(view) : view[m][1] = records[i].group_ts}}
              IN \A k \in 0..(W - 1) :
                   (records[i].bit_changes_count[k] > 0) <=> (BitOf(k) \in group_or)

\* a tracker whose second group has one occurrence, which differs from the
\* last occurrence of the first group
C17_Witness ==
  /\ Done
  /\ \E tracker \in Trackers :
       /\ Len(tracker.messages) = 2
       /\ Len(tracker.messages[1].val) = 2
       /\ Len(tracker.messages[2].val) = 1
       /\ group_message_tuples_with_bit_changes(tracker)[3][2].bit_changes # {}
       /\ group_change_trackers(tracker)[2].bit_changes_count[5] = 1

-----------------------------------------------------------------------------
(* C18 *)
(* The program on a log whose clock is coarse: a row may carry the time of the
   row before it, so two occurrences of the reference message, and the groups
   they open, may share a timestamp. *)

RowsDup ==
  {Message(RefId, ts, data, Len(stream) + 1) :
     ts \in {LastTs + 1} \cup (IF Len(stream) > 0 THEN {LastTs} ELSE {}),
     data \in Payloads(RefId)}
  \cup UNION { {Message(id, IF Len(stream) > 0 THEN LastTs ELSE 1, data, Len(stream) + 1) :
                  data \in Payloads(id)} : id \in OtherIds }

NextDup ==
  \/ \E message \in RowsDup : Len(stream) < MaxRowsDup /\ LoadReference(message)
  \/ \E message \in RowsDup : Len(stream) < MaxRowsDup /\ LoadOther(message)
  \/ \E message \in RowsDup : Len(stream) < MaxRowsDup /\ LoadDiscard(message)
  \/ LoadReturn
  \/ TrackGroup
  \/ ReportTracker

SpecDup == Init /\ [][NextDup]_vars

RECURSIVE MergedFrom(_, _, _)
\* the deduplicated lists of id in the groups g, g+1, .. already added to the
\* trackers that are anchored at ts, one after the other
MergedFrom(id, ts, g) ==
  IF g >= gi \/ g > Len(groups) THEN <<>>
  ELSE (IF groups[g].ts = ts /\ GroupHas(groups[g], id)
        THEN messages_with_change(with_id(groups[g], id))
        ELSE <<>>) \o MergedFrom(id, ts, g + 1)

\* the first group anchored at ts that holds the id
FirstGroupAt(id, ts) ==
  CHOOSE g \in 1..Len(groups) :
    /\ groups[g].ts = ts /\ GroupHas(groups[g], id)
    /\ \A h \in 1..(g - 1) : ~(groups[h].ts = ts /\ GroupHas(groups[h], id))

\* C18: if two sealed groups share an anchor timestamp, every tracker stores
\* the groups of one timestamp under a single key, the later group's
\* deduplicated list appended to the earlier one's and the first group's
\* reference message kept; so every id's count of group keys is strictly below
\* the number of groups, and no message id is reported.
C18_SharedAnchorMergesAndSilences ==
  (Analysing /\ ~DistinctAnchors) =>
    /\ \A tracker \in Trackers :
         /\ count(tracker) < Len(groups)
         /\ tracker.group_count = Len(groups)
         /\ \A i, j \in 1..Len(tracker.messages) :
              i # j => tracker.messages[i].key # tracker.messages[j].key
         /\ \A i \in 1..Len(tracker.messages) :
              LET ts == tracker.messages[i].key
              IN /\ tracker.messages[i].val = MergedFrom(tracker.id, ts, 1)
                 /\ Get(tracker.ref_messages, ts)
                      = groups[FirstGroupAt(tracker.id, ts)].ref_message
    /\ printed = <<>>

\* two groups that share their anchor both hold the id, with payloads that
\* differ: the tracker has one key with both lists, and nothing is printed
C18_Witness ==
  /\ Done
  /\ Len(groups) = 2
  /\ groups[1].ts = groups[2].ts
  /\ PresentInAllGroups("a")
  /\ \E tracker \in Trackers :
       /\ tracker.id = "a"
       /\ Len(tracker.messages) = 1
       /\ Len(tracker.messages[1].val) = 4
       /\ tracker.messages[1].val[2].data = tracker.messages[1].val[4].data
       /\ tracker.ref_messages[1].val = groups[1].ref_message
       /\ tracker.ref_messages[1].val # groups[2].ref_message
  /\ printed = <<>>

-----------------------------------------------------------------------------
(* C19 *)

RECURSIVE TuplesFrom(_, _)
\* the deduplicated collections of id in the groups g, g+1, .. already added
\* to the trackers, each message paired with its group's anchor
TuplesFrom(id, g) ==
  IF g >= gi \/ g > Len(groups) THEN <<>>
  ELSE (IF GroupHas(groups[g], id)
        THEN LET kept == messages_with_change(with_id(groups[g], id))
             IN [j \in 1..Len(kept) |-> <<groups[g].ts, kept[j]>>]
        ELSE <<>>) \o TuplesFrom(id, g + 1)

\* the groups already added to the trackers
Added == {g \in 1..Len(groups) : g < gi}

====
